---------------------------- MODULE Spec2Model ----------------------------
(***************************************************************************)
(* A model of the PNG chunk codec: ChunkType (chunk_type.rs), Chunk        *)
(* (chunk.rs) and the encode / decode / remove / print commands            *)
(* (commands.rs) that drive a Png container kept in a file.                *)
(*                                                                         *)
(* A byte is a number in 0..255.  A u32 is a pair <<hi, lo>> of 16-bit     *)
(* limbs (value hi * 65536 + lo), so that the whole u32 range, up to       *)
(* 0xFFFFFFFF, is representable.  A char is its Unicode scalar value and   *)
(* a string a sequence of chars.                                           *)
(***************************************************************************)
EXTENDS Integers, Sequences, FiniteSets, TLC

(***************************************************************************)
(* Integer helpers: u32 conversions and bitwise operations.                *)
(***************************************************************************)

\* u32::from_be_bytes: most significant byte first.
from_be_bytes(b) == << (b[1] * 256) + b[2], (b[3] * 256) + b[4] >>

\* u32::to_be_bytes
to_be_bytes(v) == << v[1] \div 256, v[1] % 256, v[2] \div 256, v[2] % 256 >>

RECURSIVE XorN(_, _, _)
\* bitwise exclusive or of two n-bit numbers
XorN(a, b, n) ==
    IF n = 0 THEN 0
    ELSE ((a + b) % 2) + 2 * XorN(a \div 2, b \div 2, n - 1)

\* a function as an explicit table, computed once
Table(f) == f @@ << >>

\* exclusive or of two bytes, tabulated
XorByte == Table([ a \in 0..255 |-> Table([ b \in 0..255 |-> XorN(a, b, 8) ]) ])

Xor16(a, b) ==
    (XorByte[a \div 256][b \div 256] * 256) + XorByte[a % 256][b % 256]

Xor32(v, w) == << Xor16(v[1], w[1]), Xor16(v[2], w[2]) >>

RECURSIVE ReflectN(_, _)
\* the n-bit number a with its bits in reverse order
ReflectN(a, n) ==
    IF n = 0 THEN 0
    ELSE (a % 2) * (2 ^ (n - 1)) + ReflectN(a \div 2, n - 1)

Reflect32(v) == << ReflectN(v[2], 16), ReflectN(v[1], 16) >>

Shr1(v) == << v[1] \div 2, ((v[1] % 2) * 32768) + (v[2] \div 2) >>

Shr8(v) == << v[1] \div 256, ((v[1] % 256) * 256) + (v[2] \div 256) >>

(***************************************************************************)
(* CRC-32 as configured by PNG_CRC_ALGO and computed by Crc::checksum.     *)
(***************************************************************************)

PNG_CRC_ALGO ==
    [ width  |-> 32,
      poly   |-> << 1217, 7607 >>,        \* 0x04C11DB7
      init   |-> << 65535, 65535 >>,      \* 0xFFFFFFFF
      refin  |-> TRUE,
      refout |-> TRUE,
      xorout |-> << 65535, 65535 >>,      \* 0xFFFFFFFF
      check  |-> << 52212, 14630 >>,      \* 0xCBF43926
      residue |-> << 0, 0 >> ]

RECURSIVE CrcShift(_, _)
\* k steps of the reflected shift register
CrcShift(v, k) ==
    IF k = 0 THEN v
    ELSE CrcShift(IF v[2] % 2 = 1
                  THEN Xor32(Shr1(v), Reflect32(PNG_CRC_ALGO.poly))
                  ELSE Shr1(v), k - 1)

\* the byte-indexed lookup table of the reflected algorithm
CrcTable == Table([ i \in 0..255 |-> CrcShift(<< 0, i >>, 8) ])

CrcUpdate(crc, byte) ==
    Xor32(CrcTable[XorByte[crc[2] % 256][byte]], Shr8(crc))

\* the values of a u32
U32 == (0..65535) \X (0..65535)

RECURSIVE CrcFold(_, _)
\* the register after each byte in turn; it is a u32 at every step
CrcFold(crc, bytes) ==
    IF bytes = << >> \/ crc \notin U32 THEN crc
    ELSE CrcFold(CrcUpdate(crc, Head(bytes)), Tail(bytes))

\* Crc::<u32>::new(&PNG_CRC_ALGO).checksum(bytes)
Checksum(bytes) == Xor32(CrcFold(PNG_CRC_ALGO.init, bytes), PNG_CRC_ALGO.xorout)

(***************************************************************************)
(* Results of fallible operations.  A Rust panic (an out-of-range index,   *)
(* an expect or unwrap on a failure) aborts the operation: Panic.          *)
(***************************************************************************)

Ok(v) == [ tag |-> "Ok", val |-> v ]

Err(e) == [ tag |-> "Err", val |-> e ]

Panic(msg) == [ tag |-> "Panic", val |-> msg ]

(***************************************************************************)
(* UTF-8, as std::str::from_utf8 and str::as_bytes treat it.               *)
(***************************************************************************)

IsCont(b) == b \in 128..191

RECURSIVE from_utf8(_)
\* std::str::from_utf8: Ok(the chars) or Err when the bytes are not UTF-8
from_utf8(b) ==
    IF b = << >> THEN Ok(<< >>)
    ELSE
      LET n == Len(b)
          b1 == b[1]
          width ==
            IF b1 < 128 THEN 1
            ELSE IF b1 \in 194..223 /\ n >= 2 /\ IsCont(b[2]) THEN 2
            ELSE IF /\ b1 \in 224..239 /\ n >= 3 /\ IsCont(b[3])
                    /\ IF b1 = 224 THEN b[2] \in 160..191
                       ELSE IF b1 = 237 THEN b[2] \in 128..159
                       ELSE IsCont(b[2])
                 THEN 3
            ELSE IF /\ b1 \in 240..244 /\ n >= 4 /\ IsCont(b[3]) /\ IsCont(b[4])
                    /\ IF b1 = 240 THEN b[2] \in 144..191
                       ELSE IF b1 = 244 THEN b[2] \in 128..143
                       ELSE IsCont(b[2])
                 THEN 4
            ELSE 0
          char ==
            CASE width = 1 -> b1
              [] width = 2 -> (b1 - 192) * 64 + (b[2] - 128)
              [] width = 3 -> (b1 - 224) * 4096 + (b[2] - 128) * 64 + (b[3] - 128)
              [] width = 4 -> (b1 - 240) * 262144 + (b[2] - 128) * 4096
                              + (b[3] - 128) * 64 + (b[4] - 128)
              [] OTHER -> 0
          rest == from_utf8(SubSeq(b, width + 1, n))
      IN  IF width = 0 THEN Err("invalid utf8")
          ELSE IF rest.tag = "Err" THEN rest
          ELSE Ok(<< char >> \o rest.val)

\* the UTF-8 encoding of one char
encode_utf8(c) ==
    IF c < 128 THEN << c >>
    ELSE IF c < 2048 THEN << 192 + (c \div 64), 128 + (c % 64) >>
    ELSE IF c < 65536
         THEN << 224 + (c \div 4096), 128 + ((c \div 64) % 64), 128 + (c % 64) >>
    ELSE << 240 + (c \div 262144), 128 + ((c \div 4096) % 64),
            128 + ((c \div 64) % 64), 128 + (c % 64) >>

RECURSIVE str_as_bytes(_)
\* str::as_bytes: the UTF-8 bytes of a string
str_as_bytes(s) ==
    IF s = << >> THEN << >>
    ELSE encode_utf8(Head(s)) \o str_as_bytes(Tail(s))

(***************************************************************************)
(* ChunkType (chunk_type.rs): struct ChunkType(pub u32).                   *)
(***************************************************************************)

is_ascii_uppercase(b) == b \in 65..90

is_ascii_lowercase(b) == b \in 97..122

\* ChunkType::bytes
bytes(t) == to_be_bytes(t)

RECURSIVE is_valid_loop(_, _)
\* the loop of is_valid from index i on: the first arm that matches returns
is_valid_loop(b, i) ==
    IF i > 3 THEN TRUE
    ELSE IF i = 2 /\ ~is_ascii_uppercase(b[i + 1]) THEN FALSE
    ELSE IF ~is_ascii_lowercase(b[i + 1]) /\ ~is_ascii_uppercase(b[i + 1]) THEN FALSE
    ELSE is_valid_loop(b, i + 1)

\* the same loop without the reserved-position arm
is_valid_any_case(t) ==
    \A i \in 0..3 : LET byte == to_be_bytes(t)[i + 1]
                    IN  is_ascii_lowercase(byte) \/ is_ascii_uppercase(byte)

\* ChunkType::is_valid
is_valid(t) == is_valid_loop(to_be_bytes(t), 0)

RECURSIVE is_err_loop(_, _)
is_err_loop(b, i) ==
    IF i > 3 THEN FALSE
    ELSE IF i = 2 /\ ~is_ascii_uppercase(b[i + 1]) THEN TRUE
    ELSE IF ~is_ascii_lowercase(b[i + 1]) /\ ~is_ascii_uppercase(b[i + 1]) THEN TRUE
    ELSE is_err_loop(b, i + 1)

\* ChunkType::is_err
is_err(t) == is_err_loop(to_be_bytes(t), 0)

RECURSIVE set_bitness_loop(_, _, _)
set_bitness_loop(b, bit_position, i) ==
    IF i > 3 THEN FALSE
    ELSE IF i = bit_position /\ is_ascii_uppercase(b[i + 1]) THEN TRUE
    ELSE set_bitness_loop(b, bit_position, i + 1)

\* set_bitness looking at any position up to bit_position
set_bitness_upto(t, bit_position) ==
    \E i \in 0..bit_position : is_ascii_uppercase(bytes(t)[i + 1])

\* ChunkType::set_bitness
set_bitness(t, bit_position) == set_bitness_loop(bytes(t), bit_position, 0)

\* ChunkType::is_critical
is_critical(t) == is_valid(t) /\ set_bitness(t, 0)

\* ChunkType::is_public
is_public(t) == is_valid(t) /\ set_bitness(t, 1)

\* ChunkType::is_reserved_bit_valid
is_reserved_bit_valid(t) == is_valid(t) /\ set_bitness(t, 2)

\* ChunkType::is_safe_to_copy
is_safe_to_copy(t) == is_valid(t) /\ ~set_bitness(t, 3)

\* little-endian reading of the array
ChunkType_try_from_le(value) == Ok(from_be_bytes(<< value[4], value[3], value[2], value[1] >>))

\* impl TryFrom<[u8; 4]> for ChunkType
ChunkType_try_from(value) == Ok(from_be_bytes(value))

\* impl FromStr for ChunkType: chars[i] = char as u8 for each char of s, on a
\* zeroed [u8; 4]; the index i = 4 is out of range and panics.
from_str(s) ==
    IF Len(s) > 4 THEN Panic("index out of bounds")
    ELSE Ok(from_be_bytes([ i \in 1..4 |-> IF i <= Len(s) THEN s[i] % 256 ELSE 0 ]))

\* impl Display for ChunkType (to_string): panics when the bytes are not UTF-8
to_string(t) ==
    LET r == from_utf8(to_be_bytes(t))
    IN  IF r.tag = "Ok" THEN r ELSE Panic("invalid utf8")

(***************************************************************************)
(* Chunk (chunk.rs): data_length, chunk_type, message_bytes, crc.          *)
(***************************************************************************)

\* `n as u32` for a usize n
usize_as_u32(n) == << (n \div 65536) % 65536, n % 65536 >>

\* a CRC that also covers the 4-byte length field
get_crc_checksum_with_length(chunk_type, data) ==
    Checksum(to_be_bytes(usize_as_u32(Len(data))) \o to_be_bytes(chunk_type) \o data)

\* get_crc_checksum: the CRC over the type bytes followed by the data
get_crc_checksum(chunk_type, data) == Checksum(to_be_bytes(chunk_type) \o data)

\* Chunk::new
Chunk_new(chunk_type, data) ==
    [ data_length   |-> usize_as_u32(Len(data)),
      chunk_type    |-> chunk_type,
      message_bytes |-> data,
      crc           |-> get_crc_checksum(chunk_type, data) ]

\* Chunk::length
length(c) == c.data_length

\* Chunk::chunk_type
chunk_type(c) == c.chunk_type

\* Chunk::data
data(c) == c.message_bytes

\* Chunk::crc
crc(c) == c.crc

\* Chunk::data_as_string: the expect panics on bytes that are not UTF-8
data_as_string(c) ==
    LET r == from_utf8(c.message_bytes)
    IN  IF r.tag = "Ok" THEN r ELSE Panic("cannot convert utf8 to str")

\* Chunk::as_bytes
as_bytes(c) ==
    to_be_bytes(length(c)) \o to_be_bytes(c.chunk_type)
        \o c.message_bytes \o to_be_bytes(c.crc)

\* try_from that takes the length of the payload it extracted as data_length
Chunk_try_from_payload_length(value) ==
    LET n == Len(value)
        chunk_type_raw == SubSeq(value, 5, 8)
        crc_raw == SubSeq(value, n - 3, n)
        message_data_raw == IF n > 12 THEN SubSeq(value, 9, n - 4) ELSE << >>
    IN  IF n < 8 THEN Panic("range end index out of range for slice")
        ELSE IF from_be_bytes(crc_raw)
                  # get_crc_checksum(from_be_bytes(chunk_type_raw), message_data_raw)
             THEN Err("crc checksum failed")
        ELSE Ok([ data_length   |-> usize_as_u32(Len(message_data_raw)),
                  chunk_type    |-> from_be_bytes(chunk_type_raw),
                  message_bytes |-> message_data_raw,
                  crc           |-> from_be_bytes(crc_raw) ])

\* try_from that takes the payload from index 9 on (one byte late)
Chunk_try_from_late_payload(value) ==
    LET n == Len(value)
        data_length_raw == SubSeq(value, 1, 4)
        chunk_type_raw == SubSeq(value, 5, 8)
        crc_raw == SubSeq(value, n - 3, n)
        message_data_raw == IF n > 12 THEN SubSeq(value, 10, n - 4) ELSE << >>
    IN  IF n < 8 THEN Panic("range end index out of range for slice")
        ELSE IF from_be_bytes(crc_raw)
                  # get_crc_checksum(from_be_bytes(chunk_type_raw), message_data_raw)
             THEN Err("crc checksum failed")
        ELSE Ok([ data_length   |-> from_be_bytes(data_length_raw),
                  chunk_type    |-> from_be_bytes(chunk_type_raw),
                  message_bytes |-> message_data_raw,
                  crc           |-> from_be_bytes(crc_raw) ])

\* impl TryFrom<&[u8]> for Chunk.  value[0..=3] panics below 4 bytes and
\* value[4..=7] below 8; value[len-4..len] then always exists.  The payload
\* is value[8..len-4] when len > 12 and empty otherwise.
Chunk_try_from(value) ==
    LET n == Len(value)
        data_length_raw == SubSeq(value, 1, 4)
        chunk_type_raw == SubSeq(value, 5, 8)
        crc_raw == SubSeq(value, n - 3, n)
        message_data_raw == IF n > 12 THEN SubSeq(value, 9, n - 4) ELSE << >>
    IN  IF n < 4 THEN Panic("range end index 4 out of range for slice")
        ELSE IF n < 8 THEN Panic("range end index 8 out of range for slice")
        ELSE IF from_be_bytes(crc_raw)
                  # get_crc_checksum(from_be_bytes(chunk_type_raw), message_data_raw)
             THEN Err("crc checksum failed")
        ELSE Ok([ data_length   |-> from_be_bytes(data_length_raw),
                  chunk_type    |-> from_be_bytes(chunk_type_raw),
                  message_bytes |-> message_data_raw,
                  crc           |-> from_be_bytes(crc_raw) ])

(***************************************************************************)
(* Png: the container, an ordered sequence of chunks after the 8-byte      *)
(* signature, with parse, append, lookup, removal and serialization.       *)
(***************************************************************************)

STANDARD_HEADER == << 137, 80, 78, 71, 13, 10, 26, 10 >>

RECURSIVE parse_chunks(_)
\* the chunks of the bytes after the signature: a 4-byte length, then a span
\* of 12 + length bytes parsed as one chunk, until the bytes run out.  (The
\* buffers of the model are shorter than 65536 bytes, so a length with a high
\* limb above 0 never fits.)
parse_chunks(rest) ==
    IF rest = << >> THEN Ok(<< >>)
    ELSE IF Len(rest) < 4 THEN Err("TruncatedChunk")
    ELSE
      LET l == from_be_bytes(SubSeq(rest, 1, 4))
          span == 12 + l[2]
      IN  IF l[1] > 0 \/ span > Len(rest) THEN Err("TruncatedChunk")
          ELSE
            LET c == Chunk_try_from(SubSeq(rest, 1, span))
                more == parse_chunks(SubSeq(rest, span + 1, Len(rest)))
            IN  IF c.tag # "Ok" THEN c
                ELSE IF more.tag # "Ok" THEN more
                ELSE Ok(<< c.val >> \o more.val)

\* Png::try_from
Png_try_from(value) ==
    IF Len(value) < 8 \/ SubSeq(value, 1, 8) # STANDARD_HEADER
    THEN Err("BadSignature")
    ELSE LET r == parse_chunks(SubSeq(value, 9, Len(value)))
         IN  IF r.tag = "Ok" THEN Ok([ chunks |-> r.val ]) ELSE r

\* Png::append_chunk
append_chunk(png, chunk) == [ chunks |-> Append(png.chunks, chunk) ]

RECURSIVE position(_, _, _)
\* the index of the first chunk from i on whose type prints as name; printing
\* a type (to_string) panics when its bytes are not UTF-8
position(chunks, name, i) ==
    IF i > Len(chunks) THEN Err("NotFound")
    ELSE LET shown == to_string(chunks[i].chunk_type)
         IN  IF shown.tag # "Ok" THEN shown
             ELSE IF shown.val = name THEN Ok(i)
             ELSE position(chunks, name, i + 1)

\* Png::chunk_by_type
chunk_by_type(png, name) ==
    LET at == position(png.chunks, name, 1)
    IN  IF at.tag = "Ok" THEN Ok(png.chunks[at.val]) ELSE at

\* Png::remove_chunk: the first match is taken out, the rest keep their order
remove_chunk(png, name) ==
    LET at == position(png.chunks, name, 1)
    IN  IF at.tag = "Ok"
        THEN Ok([ png   |-> [ chunks |-> SubSeq(png.chunks, 1, at.val - 1)
                                          \o SubSeq(png.chunks, at.val + 1,
                                                    Len(png.chunks)) ],
                  chunk |-> png.chunks[at.val] ])
        ELSE at

RECURSIVE chunks_as_bytes(_)
chunks_as_bytes(chunks) ==
    IF chunks = << >> THEN << >>
    ELSE as_bytes(Head(chunks)) \o chunks_as_bytes(Tail(chunks))

\* Png::as_bytes: the signature, then each chunk's bytes in order
Png_as_bytes(png) == STANDARD_HEADER \o chunks_as_bytes(png.chunks)

(***************************************************************************)
(* The commands (commands.rs).  Each reads the file, parses it, works on   *)
(* the container and may write the file back.  A command returns the       *)
(* file's content after it and what it printed or how it aborted.          *)
(***************************************************************************)

Done(content, out) == [ file |-> content, out |-> out ]

\* encode: parse the file, append Chunk::new(from_str(chunk), message bytes),
\* write the container to the output file if one was given (write_back: the
\* output file is the file itself), print the container
encode(content, chunk, message, write_back) ==
    LET png_from_file == Png_try_from(content)
        parsed_type == from_str(chunk)
        appended == append_chunk(png_from_file.val,
                                 Chunk_new(parsed_type.val, str_as_bytes(message)))
    IN  IF png_from_file.tag # "Ok" THEN Done(content, Panic("cannot create PNG from file"))
        ELSE IF parsed_type.tag # "Ok" THEN Done(content, parsed_type)
        ELSE Done(IF write_back THEN Png_as_bytes(appended) ELSE content, Ok(appended))

\* decode: parse the file, look the chunk up, print its payload as a string
decode(content, chunk) ==
    LET png_from_file == Png_try_from(content)
        found == chunk_by_type(png_from_file.val, chunk)
        text == from_utf8(found.val.message_bytes)
    IN  IF png_from_file.tag # "Ok" THEN Done(content, Panic("cannot create PNG from file"))
        ELSE IF found.tag # "Ok" THEN Done(content, Panic("cannot parse chunk type"))
        ELSE IF text.tag # "Ok" THEN Done(content, Panic("could not parse string from chunk"))
        ELSE Done(content, text)

\* remove that writes nothing back
remove_keeps_file(content, chunk) ==
    LET png_from_file == Png_try_from(content)
        result == remove_chunk(png_from_file.val, chunk)
    IN  IF png_from_file.tag # "Ok" THEN Done(content, Panic("cannot create PNG from file"))
        ELSE IF result.tag = "Ok" THEN Done(content, Ok(result.val.chunk))
        ELSE Done(content, result)

\* remove: parse the file, remove the chunk; on Ok write the container back to
\* the file and print the removed chunk, on Err print the error
remove(content, chunk) ==
    LET png_from_file == Png_try_from(content)
        result == remove_chunk(png_from_file.val, chunk)
    IN  IF png_from_file.tag # "Ok" THEN Done(content, Panic("cannot create PNG from file"))
        ELSE IF result.tag = "Ok"
             THEN Done(Png_as_bytes(result.val.png), Ok(result.val.chunk))
        ELSE Done(content, result)

\* print: parse the file and print the container
print(content) ==
    LET png_from_file == Png_try_from(content)
    IN  IF png_from_file.tag # "Ok" THEN Done(content, Panic("cannot create PNG from file"))
        ELSE Done(content, png_from_file)

(***************************************************************************)
(* State.  file is the content of the PNG file the commands work on; log   *)
(* holds the calls made so far, each with its input and its result.        *)
(***************************************************************************)
VARIABLES file, log

vars == << file, log >>

Call(op, in, out) == [ op |-> op, in |-> in, out |-> out ]

RECURSIVE SeqsUpTo(_, _)
\* the sequences over S of length at most n
SeqsUpTo(S, n) ==
    IF n = 0 THEN { << >> }
    ELSE LET shorter == SeqsUpTo(S, n - 1)
         IN  shorter \cup { Append(q, e) : q \in shorter, e \in S }

(***************************************************************************)
(* ChunkType operations on bounded inputs: a type is built from a 4-byte   *)
(* array or from a string, then one of its methods is called.              *)
(***************************************************************************)

MaxStrLen == 5

\* byte values around the edges of the two letter ranges, and the extremes
TypeByteValues == { 0, 64, 65, 90, 91, 96, 97, 122, 123, 255 }

ByteArrays == [ 1..4 -> TypeByteValues ]

\* '1', 'S', 't', U+00E9
StrChars == { 49, 83, 116, 233 }

\* "RuSt", "Rust", "Ru1t", "ruSt", "RUSt", "RuST", "teSt", and a name with U+20AC
ExampleStrings ==
    { << 82, 117, 83, 116 >>, << 82, 117, 115, 116 >>, << 82, 117, 49, 116 >>,
      << 114, 117, 83, 116 >>, << 82, 85, 83, 116 >>, << 82, 117, 83, 84 >>,
      << 116, 101, 83, 116 >>, << 8364, 117, 83, 116 >> }

TypeStrings == SeqsUpTo(StrChars, MaxStrLen) \cup ExampleStrings

InitPure == file = << >> /\ log = << >>

TypeTryFrom ==
    /\ log = << >>
    /\ \E value \in ByteArrays :
          log' = << Call("ChunkType::try_from", value, ChunkType_try_from(value)) >>
    /\ UNCHANGED file

TypeFromStr ==
    /\ log = << >>
    /\ \E s \in TypeStrings :
          log' = << Call("ChunkType::from_str", s, from_str(s)) >>
    /\ UNCHANGED file

\* a ChunkType was built and no method has been called on it yet
HasType == Len(log) = 1 /\ log[1].out.tag = "Ok"

TypeMethod(op, result) ==
    /\ HasType
    /\ log' = Append(log, Call(op, log[1].out.val, result))
    /\ UNCHANGED file

TypeBytes == HasType /\ TypeMethod("bytes", bytes(log[1].out.val))

TypeToString == HasType /\ TypeMethod("to_string", to_string(log[1].out.val))

TypeIsValid == HasType /\ TypeMethod("is_valid", is_valid(log[1].out.val))

TypeIsErr == HasType /\ TypeMethod("is_err", is_err(log[1].out.val))

TypeIsCritical == HasType /\ TypeMethod("is_critical", is_critical(log[1].out.val))

TypeIsPublic == HasType /\ TypeMethod("is_public", is_public(log[1].out.val))

TypeIsReservedBitValid ==
    HasType /\ TypeMethod("is_reserved_bit_valid", is_reserved_bit_valid(log[1].out.val))

TypeIsSafeToCopy ==
    HasType /\ TypeMethod("is_safe_to_copy", is_safe_to_copy(log[1].out.val))

NextChunkType ==
    \/ TypeTryFrom
    \/ TypeFromStr
    \/ TypeBytes
    \/ TypeToString
    \/ TypeIsValid
    \/ TypeIsErr
    \/ TypeIsCritical
    \/ TypeIsPublic
    \/ TypeIsReservedBitValid
    \/ TypeIsSafeToCopy

SpecChunkType == InitPure /\ [][NextChunkType]_vars

(***************************************************************************)
(* Properties of ChunkType, under SpecChunkType.                           *)
(***************************************************************************)

Letter(b) == b \in 65..90 \/ b \in 97..122

Upper(b) == b \in 65..90

RuSt == << 82, 117, 83, 116 >>

\* a type was built from a 4-byte array and the method op called on it
ArrayThen(op) ==
    Len(log) = 2 /\ log[1].op = "ChunkType::try_from" /\ log[2].op = op

\* a type was built from a string and the method op called on it
StringThen(op) ==
    Len(log) = 2 /\ log[1].op = "ChunkType::from_str" /\ log[2].op = op

\* C5: is_valid returns true if and only if all 4 bytes of the type are ASCII
\* letters and the byte at position 2 is uppercase; "RuSt" is valid, "Rust"
\* and "Ru1t" are not.
C5_IsValidIffLettersAndReservedUpper ==
    /\ ArrayThen("is_valid") =>
          log[2].out = ( /\ \A i \in 1..4 : Letter(log[1].in[i])
                         /\ Upper(log[1].in[3]) )
    /\ StringThen("is_valid") /\ log[1].in = RuSt => log[2].out = TRUE
    /\ StringThen("is_valid")
         /\ log[1].in \in { << 82, 117, 115, 116 >>, << 82, 117, 49, 116 >> }
       => log[2].out = FALSE

\* is_valid was called on 4 letters of which the third is lowercase
C5_Witness ==
    /\ ArrayThen("is_valid")
    /\ \A i \in 1..4 : Letter(log[1].in[i])
    /\ ~Upper(log[1].in[3])
    /\ log[2].out = FALSE

\* C6: is_critical, is_public and is_reserved_bit_valid are is_valid and the
\* byte at position 0, 1, 2 uppercase; is_safe_to_copy is is_valid and the byte
\* at position 3 not uppercase; on an invalid type all four return false.
C6_PredicatesGatedByValidity ==
    Len(log) = 2 /\ log[1].op = "ChunkType::try_from" =>
        LET b == log[1].in
            valid == is_valid(log[2].in)
            op == log[2].op
        IN  /\ op = "is_critical" => log[2].out = (valid /\ Upper(b[1]))
            /\ op = "is_public" => log[2].out = (valid /\ Upper(b[2]))
            /\ op = "is_reserved_bit_valid" => log[2].out = (valid /\ Upper(b[3]))
            /\ op = "is_safe_to_copy" => log[2].out = (valid /\ ~Upper(b[4]))
            /\ /\ ~valid
               /\ op \in { "is_critical", "is_public", "is_reserved_bit_valid",
                           "is_safe_to_copy" }
               => log[2].out = FALSE

\* is_public was called on a valid type whose first byte is uppercase and
\* whose second is lowercase, and returned false
C6_Witness ==
    /\ ArrayThen("is_public")
    /\ is_valid(log[2].in)
    /\ Upper(log[1].in[1]) /\ ~Upper(log[1].in[2])
    /\ log[2].out = FALSE

\* C7: from_str on a string that is not exactly 4 single-byte characters
\* (shorter, longer, or with a non-ASCII character) returns an error value:
\* it yields no ChunkType and does not abort.
C7_FromStrRejectsBadStrings ==
    /\ Len(log) >= 1
    /\ log[1].op = "ChunkType::from_str"
    /\ \/ Len(log[1].in) # 4
       \/ \E i \in 1..Len(log[1].in) : log[1].in[i] > 127
    => log[1].out.tag = "Err"

\* C9: try_from on a 4-byte array b succeeds and bytes() returns b; from_str on
\* a string s of 4 ASCII letters equals try_from on the bytes of s, and
\* to_string() of it is s.
C9_ConstructorsAgreeAndRoundTrip ==
    /\ Len(log) >= 1 /\ log[1].op = "ChunkType::try_from" => log[1].out.tag = "Ok"
    /\ ArrayThen("bytes") => log[2].out = log[1].in
    /\ /\ Len(log) >= 1
       /\ log[1].op = "ChunkType::from_str"
       /\ Len(log[1].in) = 4
       /\ \A i \in 1..4 : Letter(log[1].in[i])
       => /\ log[1].out.tag = "Ok"
          /\ log[1].out = ChunkType_try_from(str_as_bytes(log[1].in))
          /\ Len(log) = 2 /\ log[2].op = "to_string" =>
                log[2].out.tag = "Ok" /\ log[2].out.val = log[1].in

\* "RuSt" was parsed from a string and printed back
C9_Witness ==
    StringThen("to_string") /\ log[1].in = RuSt /\ log[2].out.tag = "Ok"

(***************************************************************************)
(* Chunk operations on bounded inputs: a chunk is built by Chunk::new or   *)
(* parsed from a buffer, serialized, and parsed again.                     *)
(***************************************************************************)

MaxData == 2

MaxOps == 3

\* "This is where your secret message will be!"
SecretMessage ==
    << 84, 104, 105, 115, 32, 105, 115, 32, 119, 104, 101, 114, 101, 32,
       121, 111, 117, 114, 32, 115, 101, 99, 114, 101, 116, 32, 109, 101,
       115, 115, 97, 103, 101, 32, 119, 105, 108, 108, 32, 98, 101, 33 >>

\* "RuSt", "Rust", "teSt" and 0xFFFFFFFF
ChunkTypeBytes ==
    { RuSt, << 82, 117, 115, 116 >>, << 116, 101, 83, 116 >>,
      << 255, 255, 255, 255 >> }

ChunkTypes == { from_be_bytes(b) : b \in ChunkTypeBytes }

DataBytes == { 0, 104, 255 }

Datas == SeqsUpTo(DataBytes, MaxData) \cup { SecretMessage }

\* the length fields tried for a payload: the right one, 0 and 42
LengthFields(d) == { << 0, 0, 0, Len(d) >>, << 0, 0, 0, 0 >>, << 0, 0, 0, 42 >> }

\* the stored CRCs tried: the right one, one off the right one, and zero
StoredCrcs(t, d) ==
    LET good == Checksum(t \o d)
    IN  { to_be_bytes(good),
          to_be_bytes(<< good[1], IF good[2] = 0 THEN 1 ELSE good[2] - 1 >>),
          << 0, 0, 0, 0 >> }

FullBuffers ==
    UNION { { l \o t \o d \o c : l \in LengthFields(d), c \in StoredCrcs(t, d) } :
            t \in ChunkTypeBytes, d \in Datas }

\* every buffer of fewer than 12 bytes that starts a full one
ShortBuffers == { SubSeq(b, 1, n) : b \in FullBuffers, n \in 0..11 }

Buffers == FullBuffers \cup ShortBuffers

Last == log[Len(log)]

ChunkNew ==
    /\ log = << >>
    /\ \E t \in ChunkTypes, d \in Datas :
          log' = << Call("Chunk::new", << t, d >>, Chunk_new(t, d)) >>
    /\ UNCHANGED file

\* Chunk::try_from on an input buffer, or on what as_bytes just returned
ChunkTryFrom ==
    /\ Len(log) < MaxOps
    /\ \E value \in IF log = << >> THEN Buffers
                    ELSE IF Last.op = "as_bytes" THEN { Last.out }
                    ELSE { } :
          log' = Append(log, Call("Chunk::try_from", value, Chunk_try_from(value)))
    /\ UNCHANGED file

\* the chunk the last call produced, if it produced one
Produced ==
    IF log = << >> THEN { }
    ELSE IF Last.op = "Chunk::new" THEN { Last.out }
    ELSE IF Last.op = "Chunk::try_from" /\ Last.out.tag = "Ok" THEN { Last.out.val }
    ELSE { }

ChunkAsBytes ==
    /\ Len(log) < MaxOps
    /\ \E c \in Produced :
          log' = Append(log, Call("as_bytes", c, as_bytes(c)))
    /\ UNCHANGED file

ChunkDataAsString ==
    /\ Len(log) < MaxOps
    /\ \E c \in Produced :
          log' = Append(log, Call("data_as_string", c, data_as_string(c)))
    /\ UNCHANGED file

NextChunk ==
    \/ ChunkNew
    \/ ChunkTryFrom
    \/ ChunkAsBytes
    \/ ChunkDataAsString

SpecChunk == InitPure /\ [][NextChunk]_vars

(***************************************************************************)
(* Properties of Chunk, under SpecChunk.                                   *)
(***************************************************************************)

\* the big-endian value of 4 bytes
BigEndian(q) == << q[1] * 256 + q[2], q[3] * 256 + q[4] >>

Calls(op) == { k \in 1..Len(log) : log[k].op = op }

\* C1: a chunk produced by Chunk::new or by a successful Chunk::try_from
\* parses back from its as_bytes() to the same length, type, payload and crc;
\* and a buffer b on which Chunk::try_from succeeds is what as_bytes() of the
\* parsed chunk returns.
C1_AsBytesInvertsTryFrom ==
    \A k \in 1..(Len(log) - 1) :
        /\ log[k].op = "as_bytes" /\ log[k + 1].op = "Chunk::try_from" =>
              log[k + 1].out.tag = "Ok" /\ log[k + 1].out.val = log[k].in
        /\ /\ log[k].op = "Chunk::try_from"
           /\ log[k].out.tag = "Ok"
           /\ log[k + 1].op = "as_bytes"
           => log[k + 1].out = log[k].in

\* C2: on a buffer of at least 12 bytes Chunk::try_from returns an error
\* exactly when the big-endian value of the last 4 bytes differs from the
\* CRC-32 over bytes[4..8] followed by bytes[8..len-4]; otherwise it returns
\* the chunk with that type, that payload and the stored crc.
C2_TryFromErrIffCrcDiffers ==
    \A k \in Calls("Chunk::try_from") :
        LET b == log[k].in
            n == Len(b)
            stored == BigEndian(SubSeq(b, n - 3, n))
            computed == Checksum(SubSeq(b, 5, 8) \o SubSeq(b, 9, n - 4))
            out == log[k].out
        IN  n >= 12 =>
              /\ out.tag = "Err" <=> stored # computed
              /\ stored = computed =>
                    /\ out.tag = "Ok"
                    /\ chunk_type(out.val) = BigEndian(SubSeq(b, 5, 8))
                    /\ data(out.val) = SubSeq(b, 9, n - 4)
                    /\ crc(out.val) = stored

\* a full buffer whose stored CRC is one off the computed one was rejected
C2_Witness ==
    \E k \in Calls("Chunk::try_from") :
        LET b == log[k].in
        IN  /\ Len(b) = 14
            /\ SubSeq(b, 1, 10) = << 0, 0, 0, 2 >> \o RuSt \o << 104, 104 >>
            /\ SubSeq(b, 11, 14) # << 0, 0, 0, 0 >>
            /\ log[k].out.tag = "Err"

\* C3: Chunk::new(type, payload) returns a chunk whose length() is the number
\* of payload bytes, whose chunk_type() and data() are the arguments, whose
\* crc() is the CRC-32 over the type bytes then the payload, and which
\* Chunk::try_from accepts once serialized.  For "RuSt" and the secret message
\* length() is 42 and crc() is 2882656334.
C3_NewBuildsCheckedChunk ==
    Len(log) >= 1 /\ log[1].op = "Chunk::new" =>
        LET t == log[1].in[1]
            d == log[1].in[2]
            c == log[1].out
        IN  /\ length(c) = << 0, Len(d) >>
            /\ chunk_type(c) = t
            /\ data(c) = d
            /\ crc(c) = Checksum(to_be_bytes(t) \o d)
            /\ t = BigEndian(RuSt) /\ d = SecretMessage =>
                  length(c) = << 0, 42 >> /\ crc(c) = << 43985, 55374 >>
            /\ Len(log) = 3 /\ log[3].op = "Chunk::try_from" =>
                  log[3].out.tag = "Ok"

\* the chunk of test_new_chunk was built, serialized and parsed back
C3_Witness ==
    /\ Len(log) = 3
    /\ log[1].op = "Chunk::new"
    /\ log[1].in = << BigEndian(RuSt), SecretMessage >>
    /\ log[3].op = "Chunk::try_from"
    /\ log[3].out.tag = "Ok"

\* C8: Chunk::try_from on a buffer of fewer than 12 bytes returns the
\* structured error TooShort: no abort, no chunk, no other error.
C8_ShortBufferIsTooShort ==
    \A k \in Calls("Chunk::try_from") :
        Len(log[k].in) < 12 =>
            log[k].out.tag = "Err" /\ log[k].out.val = "TooShort"

\* C10: every chunk, built by Chunk::new or returned by a successful
\* Chunk::try_from, has length() equal to the number of bytes of data(),
\* whatever the length field of the parsed buffer says (stated here for the
\* first call, and for input buffers of at least 12 bytes, which hold all the
\* fields of a chunk).
C10_LengthIsPayloadSize ==
    Len(log) >= 1 =>
        /\ log[1].op = "Chunk::new" =>
              length(log[1].out) = << 0, Len(data(log[1].out)) >>
        /\ /\ log[1].op = "Chunk::try_from"
           /\ Len(log[1].in) >= 12
           /\ log[1].out.tag = "Ok"
           => length(log[1].out.val) = << 0, Len(data(log[1].out.val)) >>

\* C10 as amended: a chunk built by Chunk::new has length() equal to the number
\* of bytes of data(); a chunk returned by a successful Chunk::try_from has
\* length() equal to the big-endian value of the buffer's first 4 bytes.
C10_LengthIsPayloadSizeOrField ==
    /\ \A k \in Calls("Chunk::new") :
          length(log[k].out) = << 0, Len(data(log[k].out)) >>
    /\ \A k \in Calls("Chunk::try_from") :
          log[k].out.tag = "Ok" =>
              length(log[k].out.val) = BigEndian(SubSeq(log[k].in, 1, 4))

\* a buffer whose length field says 42 was parsed into a chunk with 2 bytes
C10_Witness ==
    \E k \in Calls("Chunk::try_from") :
        /\ log[k].out.tag = "Ok"
        /\ length(log[k].out.val) = << 0, 42 >>
        /\ Len(data(log[k].out.val)) = 2

(***************************************************************************)
(* The commands run one after another on the file.  log keeps the last two *)
(* commands, each with the file's content before it ran.                   *)
(***************************************************************************)

MaxChunks == 2

Hello == << 104, 101, 108, 108, 111 >>

TeSt == << 116, 101, 83, 116 >>

\* a serialized chunk with a correct length field and CRC
ChunkBytes(t, d) == << 0, 0, 0, Len(d) >> \o t \o d \o to_be_bytes(Checksum(t \o d))

SecretFile == STANDARD_HEADER \o ChunkBytes(RuSt, SecretMessage)

\* the files the commands may find: an empty container, the container of the
\* secret message, one whose "teSt" payload is not UTF-8, a file with another
\* first byte, one cut short by a byte, and one with a wrong stored CRC
InitFiles ==
    { STANDARD_HEADER,
      SecretFile,
      STANDARD_HEADER \o ChunkBytes(TeSt, << 255 >>),
      << 0 >> \o Tail(SecretFile),
      SubSeq(SecretFile, 1, Len(SecretFile) - 1),
      SubSeq(SecretFile, 1, Len(SecretFile) - 1) \o << 0 >> }

\* "teSt", "RuSt", a name that starts with U+00E9, and a name of 5 chars
EncodeNames == { TeSt, RuSt, << 233, 101, 83, 116 >>, << 82, 117, 83, 116, 88 >> }

\* "teSt", "RuSt" and "zzZz"
LookupNames == { TeSt, RuSt, << 122, 122, 90, 122 >> }

Messages == { Hello }

Init == file \in InitFiles /\ log = << >>

\* the command is recorded after the one before it
Record(call) == IF log = << >> THEN << call >> ELSE << Last, call >>

Command(op, in, done) ==
    /\ file' = done.file
    /\ log' = Record([ op |-> op, in |-> in, out |-> done.out, before |-> file ])

\* the number of chunks in the file, 0 when it does not parse
ChunkCount ==
    LET png == Png_try_from(file)
    IN  IF png.tag = "Ok" THEN Len(png.val.chunks) ELSE 0

\* (the model stops appending once the file holds MaxChunks chunks)
Encode ==
    /\ ChunkCount < MaxChunks
    /\ \E chunk \in EncodeNames, message \in Messages, write_back \in BOOLEAN :
          Command("encode",
                  [ chunk |-> chunk, message |-> message, write_back |-> write_back ],
                  encode(file, chunk, message, write_back))

Decode ==
    \E chunk \in LookupNames :
        Command("decode", [ chunk |-> chunk ], decode(file, chunk))

Remove ==
    \E chunk \in LookupNames :
        Command("remove", [ chunk |-> chunk ], remove(file, chunk))

PrintFile == Command("print", [ chunk |-> << >> ], print(file))

Next ==
    \/ Encode
    \/ Decode
    \/ Remove
    \/ PrintFile

Spec == Init /\ [][Next]_vars

(***************************************************************************)
(* Properties of the container, under Spec.                                *)
(***************************************************************************)

\* the chunks of the container before the first of the two logged commands
ChunksBefore == Png_try_from(log[1].before).val.chunks

\* the chunk the logged encode appended
Appended == log[1].out.val.chunks[Len(log[1].out.val.chunks)]

\* encode appended a chunk and wrote the container to the file, and remove was
\* then called with the type name of that chunk
AppendedThenRemoved ==
    /\ Len(log) = 2
    /\ log[1].op = "encode" /\ log[1].out.tag = "Ok" /\ log[1].in.write_back
    /\ log[2].op = "remove"
    /\ to_string(Appended.chunk_type).tag = "Ok"
    /\ to_string(Appended.chunk_type).val = log[2].in.chunk
    /\ Appended.message_bytes = str_as_bytes(log[1].in.message)

\* remove returned the appended chunk and left the bytes of the container as
\* they were before the append
RemovedAndRestored ==
    /\ log[2].out.tag = "Ok"
    /\ log[2].out.val = Appended
    /\ file = Png_as_bytes([ chunks |-> ChunksBefore ])

NoEarlierChunkOfThatName ==
    \A i \in 1..Len(ChunksBefore) :
        LET shown == to_string(ChunksBefore[i].chunk_type)
        IN  shown.tag = "Ok" /\ shown.val # log[2].in.chunk

=============================================================================
